---- MODULE Spec2Model ----
(***************************************************************************)
(* Model of miniproject.py: the two classifiers detect_human_language and  *)
(* detect_programming_language, the helper get_language_name, and the      *)
(* three button handlers of LanguageDetectorApp.                           *)
(*                                                                         *)
(* Python strings are TLA+ strings; Len, \o and SubSeq act on them.        *)
(* A call's result is a record [out, exc, value, arg, events]: out is      *)
(* "return" or "raise" (an exception leaving the function), value the      *)
(* returned string, arg the argument it was called with, events the        *)
(* external calls and table evaluations it made, in order, each with its   *)
(* argument and what it gave back.                                         *)
(***************************************************************************)
EXTENDS Integers, Sequences, FiniteSets, TLC

VARIABLES
    text,    \* Spec: content of the Text widget; SpecFn: the argument of the direct calls
    op,      \* the last operation performed
    human,   \* result of the last detect_human_language call, or NoCall
    prog,    \* result of the last detect_programming_language call, or NoCall
    events,  \* shell: classifier calls and notices of the last handler, in order
    notice   \* shell: the messagebox shown by the last handler, or NoNotice

vars == <<text, op, human, prog, events, notice>>

-----------------------------------------------------------------------------
(* Bounds of the model *)

\* an input sample is the concatenation of at most MaxFrags fragments
MaxFrags == 2
\* the oracle returns at most MaxCands candidates
MaxCands == 2

Frags ==
    { " ", "abc", ":", ";", "=>", "def ", "Def ", "void main(", "#include",
      "std::cout", "using namespace std;", "std::endl", "<html>" }

RECURSIVE Concats(_)
Concats(n) ==
    IF n = 0 THEN {""}
    ELSE LET shorter == Concats(n - 1)
         IN  shorter \cup {s \o f : s \in shorter, f \in Frags}

Inputs == Concats(MaxFrags)

\* what the user may have in the text area
ShellTexts ==
    {""} \cup Frags \cup {"   ", " \n ", " : ", "  hello world  ", "abcdef ", "#include std::cout"}

-----------------------------------------------------------------------------
(* str.strip() and the `in` operator on strings *)

Whitespace == {" ", "\t", "\n", "\r", "\f"}

RECURSIVE lstrip(_)
lstrip(s) ==
    IF Len(s) > 0 /\ SubSeq(s, 1, 1) \in Whitespace
    THEN lstrip(SubSeq(s, 2, Len(s)))
    ELSE s

RECURSIVE rstrip(_)
rstrip(s) ==
    IF Len(s) > 0 /\ SubSeq(s, Len(s), Len(s)) \in Whitespace
    THEN rstrip(SubSeq(s, 1, Len(s) - 1))
    ELSE s

strip(s) == rstrip(lstrip(s))

\* mutant of In: code.startswith(keyword)
In_startswith(keyword, code) ==
    Len(keyword) <= Len(code) /\ SubSeq(code, 1, Len(keyword)) = keyword

\* keyword in code
In(keyword, code) ==
    \E i \in 1..(Len(code) - Len(keyword) + 1) :
        SubSeq(code, i, i + Len(keyword) - 1) = keyword

-----------------------------------------------------------------------------
(* Results *)

NoCall == [out |-> "none", exc |-> "", value |-> "", arg |-> "", events |-> <<>>]
Return(v, a, ev) == [out |-> "return", exc |-> "", value |-> v, arg |-> a, events |-> ev]
\* an exception of class e with description d leaves the function
Raise(e, d, a, ev) == [out |-> "raise", exc |-> e, value |-> d, arg |-> a, events |-> ev]

\* one external call or table evaluation: what was called, on what, with what outcome
Event(fn, arg, got) == [fn |-> fn, arg |-> arg, got |-> got]

NoNotice == [kind |-> "none", title |-> "", message |-> ""]
NoOutcome == [kind |-> "none", langs |-> <<>>, desc |-> ""]
NoLookup == [kind |-> "none", name |-> ""]

-----------------------------------------------------------------------------
(* The external collaborators: detect_langs and pycountry.languages.get *)

Codes == {"en", "zz"}

\* Language.prob, in units of 1/100000
Probs == {99999, 42857}

Candidates == [lang : Codes, prob : Probs]

RECURSIVE ListsUpTo(_)
ListsUpTo(n) ==
    IF n = 0 THEN {<<>>}
    ELSE LET shorter == ListsUpTo(n - 1)
         IN  shorter \cup {Append(l, c) : l \in shorter, c \in Candidates}

\* detect_langs(text) returns a list of candidates (possibly empty), raises
\* LangDetectException, or raises another exception
OracleOutcomes ==
    {[kind |-> "list", langs |-> l, desc |-> ""] : l \in ListsUpTo(MaxCands)}
        \cup {[kind |-> "LangDetectException", langs |-> <<>>, desc |-> "No features in text."],
              [kind |-> "Exception", langs |-> <<>>, desc |-> "boom"]}

LanguageNames == [en |-> "English"]

\* pycountry.languages.get(alpha_2=language_code): the Language of a known
\* code; for an unknown code None, or (raises) an exception
languages_get(language_code, raises) ==
    IF language_code \in DOMAIN LanguageNames
    THEN [kind |-> "found", name |-> LanguageNames[language_code]]
    ELSE IF raises THEN [kind |-> "raise", name |-> ""]
    ELSE [kind |-> "None", name |-> ""]

-----------------------------------------------------------------------------
(* get_language_name *)

\* mutant of get_language_name: no try/except around the lookup
get_language_name_uncaught(language_code, raises) ==
    LET language == languages_get(language_code, raises)
        ev == <<Event("pycountry.languages.get", language_code, language)>>
    IN  IF language.kind = "raise"
        THEN Raise("Exception", "lookup failed", language_code, ev)
        ELSE IF language.kind = "found"
        THEN Return(language.name, language_code, ev)
        ELSE Return("Unknown Language", language_code, ev)

get_language_name(language_code, raises) ==
    LET language == languages_get(language_code, raises)
        ev == <<Event("pycountry.languages.get", language_code, language)>>
    IN  IF language.kind = "raise"
        THEN Return("Unknown Language", language_code, ev)      \* except Exception
        ELSE IF language.kind = "found"
        THEN Return(language.name, language_code, ev)
        ELSE Return("Unknown Language", language_code, ev)

-----------------------------------------------------------------------------
(* detect_human_language *)

MinLength == 5

TooShortHuman == "Error: Input is too short to detect a human language."
Ambiguous ==
    "Error: Unable to detect human language. The text might be too ambiguous or insufficient."
UnexpectedHuman == "Error: Unexpected issue in human language detection. Details: "

\* f"{n:02d}"
TwoDigits(n) == IF n < 10 THEN "0" \o ToString(n) ELSE ToString(n)

\* f"{probability:.2f}" for probability = prob * 100, prob in units of
\* 1/100000: the percentage rounded to hundredths (no member of Probs lies
\* halfway between two hundredths)
Format2f(prob) ==
    LET hundredths == (prob + 5) \div 10
    IN  ToString(hundredths \div 100) \o "." \o TwoDigits(hundredths % 100)

SuccessMessage(language_name, prob) ==
    "Detected Language: " \o language_name \o " with " \o Format2f(prob) \o "% chances."

\* mutant of human_try: the last candidate of the list instead of the first
human_try_last(text_, o, raises) ==
    LET ev == <<Event("detect_langs", text_, o)>>
    IN  IF o.kind # "list"
        THEN Raise(o.kind, o.desc, text_, ev)
        ELSE IF o.langs # <<>>
        THEN LET most_probable_lang == o.langs[Len(o.langs)]
                 language_name == get_language_name(most_probable_lang.lang, raises)
             IN  IF language_name.out = "raise"
                 THEN Raise(language_name.exc, language_name.value, text_,
                            ev \o language_name.events)
                 ELSE Return(SuccessMessage(language_name.value, most_probable_lang.prob),
                             text_, ev \o language_name.events)
        ELSE Return(Ambiguous, text_, ev)

\* the try block, lines 34-46
human_try(text_, o, raises) ==
    LET ev == <<Event("detect_langs", text_, o)>>
    IN  IF o.kind # "list"
        THEN Raise(o.kind, o.desc, text_, ev)
        ELSE IF o.langs # <<>>
        THEN LET most_probable_lang == o.langs[1]
                 language_name == get_language_name(most_probable_lang.lang, raises)
             IN  IF language_name.out = "raise"
                 THEN Raise(language_name.exc, language_name.value, text_,
                            ev \o language_name.events)
                 ELSE Return(SuccessMessage(language_name.value, most_probable_lang.prob),
                             text_, ev \o language_name.events)
        ELSE Return(Ambiguous, text_, ev)

\* mutant of detect_human_language: no `except Exception` clause
detect_human_language_uncaught(text_, o, raises) ==
    IF Len(strip(text_)) < MinLength
    THEN Return(TooShortHuman, text_, <<>>)
    ELSE LET r == human_try(text_, o, raises)
         IN  IF r.out = "raise" /\ r.exc = "LangDetectException"
             THEN Return(Ambiguous, text_, r.events)
             ELSE r

\* mutant of detect_human_language: no `except LangDetectException` clause
detect_human_language_one_handler(text_, o, raises) ==
    IF Len(strip(text_)) < MinLength
    THEN Return(TooShortHuman, text_, <<>>)
    ELSE LET r == human_try(text_, o, raises)
         IN  IF r.out = "raise"
             THEN Return(UnexpectedHuman \o r.value, text_, r.events)
             ELSE r

detect_human_language(text_, o, raises) ==
    IF Len(strip(text_)) < MinLength
    THEN Return(TooShortHuman, text_, <<>>)
    ELSE LET r == human_try(text_, o, raises)
         IN  IF r.out = "raise" /\ r.exc = "LangDetectException"
             THEN Return(Ambiguous, text_, r.events)
             ELSE IF r.out = "raise"
             THEN Return(UnexpectedHuman \o r.value, text_, r.events)
             ELSE r

-----------------------------------------------------------------------------
(* detect_programming_language *)

TooShortProg == "Error: Input is too short to detect a programming language."
NoPattern == "Unknown programming language. No patterns matched."

patterns ==
    << [language |-> "Python",
        keywords |-> <<"def ", "print(", "import ", "class ", ":">>],
       [language |-> "JavaScript",
        keywords |-> <<"function ", "console.log", "let ", "var ", "const ", "=>">>],
       [language |-> "Java",
        keywords |-> <<"public class", "System.out.println", "void main(", "import java.">>],
       [language |-> "C",
        keywords |-> <<"#include", "int main(", "printf(", ";">>],
       [language |-> "C++",
        keywords |-> <<"#include", "std::cout", "using namespace std;", "std::endl">>],
       [language |-> "HTML",
        keywords |-> <<"<!DOCTYPE html>", "<html>", "<head>", "<body>", "</html>">>] >>

\* mutant of any_keyword: the last keyword of the list is never tried
any_keyword_skips_last(keywords, code) ==
    \E k \in 1..(Len(keywords) - 1) : In(keywords[k], code)

\* any(keyword in code for keyword in keywords)
any_keyword(keywords, code) ==
    \E k \in 1..Len(keywords) : In(keywords[k], code)

\* mutant of scan: the last matching rule wins
RECURSIVE scan_last_match(_, _)
scan_last_match(i, code) ==
    IF i > Len(patterns) THEN NoPattern
    ELSE LET later == scan_last_match(i + 1, code)
         IN  IF later # NoPattern THEN later
             ELSE IF any_keyword(patterns[i].keywords, code) THEN patterns[i].language
             ELSE NoPattern

\* mutant of scan: the last rule of the table is never tried
RECURSIVE scan_skips_last(_, _)
scan_skips_last(i, code) ==
    IF i >= Len(patterns) THEN NoPattern
    ELSE IF any_keyword(patterns[i].keywords, code) THEN patterns[i].language
    ELSE scan_skips_last(i + 1, code)

\* the for loop, lines 72-75, from rule i on
RECURSIVE scan(_, _)
scan(i, code) ==
    IF i > Len(patterns) THEN NoPattern
    ELSE IF any_keyword(patterns[i].keywords, code) THEN patterns[i].language
    ELSE scan(i + 1, code)

\* mutant of detect_programming_language: len(code) instead of len(code.strip())
detect_programming_language_unstripped(code) ==
    IF Len(code) < MinLength
    THEN Return(TooShortProg, code, <<>>)
    ELSE Return(scan(1, code), code, <<Event("patterns", code, NoOutcome)>>)

detect_programming_language(code) ==
    IF Len(strip(code)) < MinLength
    THEN Return(TooShortProg, code, <<>>)
    ELSE Return(scan(1, code), code, <<Event("patterns", code, NoOutcome)>>)

-----------------------------------------------------------------------------
(* LanguageDetectorApp: the three button handlers *)

\* self.text_area.get("1.0", END): the content and Tk's final newline
text_area_get == text \o "\n"

showerror(title, message) == [kind |-> "showerror", title |-> title, message |-> message]
showinfo(title, message) == [kind |-> "showinfo", title |-> title, message |-> message]

Shown(n) == Event(n.kind, n.message, NoOutcome)
Called(fn, r) == Event(fn, r.arg, NoOutcome)

\* the user replaces the content of the text area
EditText ==
    /\ \E s \in ShellTexts : s # text /\ text' = s
    /\ op' = "edit"
    /\ human' = NoCall /\ prog' = NoCall
    /\ events' = <<>> /\ notice' = NoNotice

\* messagebox.showinfo(title, message) after the classifier results rs (in
\* call order) came back; a result that is an exception ends the handler
\* there, before any notice
RECURSIVE CalledUntilRaise(_, _)
CalledUntilRaise(fns, rs) ==
    IF rs = <<>> THEN <<>>
    ELSE IF Head(rs).out = "raise" THEN <<Called(Head(fns), Head(rs))>>
    ELSE <<Called(Head(fns), Head(rs))>> \o CalledUntilRaise(Tail(fns), Tail(rs))

Show(fns, rs, n) ==
    IF \E k \in 1..Len(rs) : rs[k].out = "raise"
    THEN notice' = NoNotice /\ events' = CalledUntilRaise(fns, rs)
    ELSE notice' = n /\ events' = CalledUntilRaise(fns, rs) \o <<Shown(n)>>

Reject(n) ==
    human' = NoCall /\ prog' = NoCall /\ notice' = n /\ events' = <<Shown(n)>>

App_detect_human_language ==
    /\ op' = "App.detect_human_language"
    /\ UNCHANGED text
    /\ \E user_input \in {strip(text_area_get)} :
         IF user_input = ""
         THEN Reject(showerror("Error", "Input field is empty! Please provide text."))
         ELSE \E o \in OracleOutcomes, raises \in BOOLEAN :
              \E result \in {detect_human_language(user_input, o, raises)} :
                 /\ human' = result
                 /\ prog' = NoCall
                 /\ Show(<<"detect_human_language">>, <<result>>,
                         showinfo("Human Language Detection", result.value))

App_detect_programming_language ==
    /\ op' = "App.detect_programming_language"
    /\ UNCHANGED text
    /\ \E user_input \in {strip(text_area_get)} :
         IF user_input = ""
         THEN Reject(showerror("Error", "Input field is empty! Please provide code."))
         ELSE \E result \in {detect_programming_language(user_input)} :
                 /\ human' = NoCall
                 /\ prog' = result
                 /\ Show(<<"detect_programming_language">>, <<result>>,
                         showinfo("Programming Language Detection",
                                  "Detected Language: " \o result.value))

\* mutant of detect_both: the input is not stripped
detect_both_unstripped ==
    /\ op' = "App.detect_both"
    /\ UNCHANGED text
    /\ \E user_input \in {text_area_get} :
         IF user_input = ""
         THEN Reject(showerror("Error", "Input field is empty! Please provide text or code."))
         ELSE \E programming_language \in {detect_programming_language(user_input)} :
              \E o \in OracleOutcomes, raises \in BOOLEAN :
              \E human_language \in {detect_human_language(user_input, o, raises)} :
                 /\ human' = human_language
                 /\ prog' = IF human_language.out = "raise" THEN NoCall
                            ELSE programming_language
                 /\ Show(<<"detect_human_language", "detect_programming_language">>,
                         <<human_language, programming_language>>,
                         showinfo("Both Language Detection",
                                  "Detected Human Language: " \o human_language.value
                                    \o "\nDetected Programming Language: "
                                    \o programming_language.value))

detect_both ==
    /\ op' = "App.detect_both"
    /\ UNCHANGED text
    /\ \E user_input \in {strip(text_area_get)} :
         IF user_input = ""
         THEN Reject(showerror("Error", "Input field is empty! Please provide text or code."))
         ELSE \E programming_language \in {detect_programming_language(user_input)} :
              \E o \in OracleOutcomes, raises \in BOOLEAN :
              \E human_language \in {detect_human_language(user_input, o, raises)} :
                 /\ human' = human_language
                 /\ prog' = IF human_language.out = "raise" THEN NoCall
                            ELSE programming_language
                 /\ Show(<<"detect_human_language", "detect_programming_language">>,
                         <<human_language, programming_language>>,
                         showinfo("Both Language Detection",
                                  "Detected Human Language: " \o human_language.value
                                    \o "\nDetected Programming Language: "
                                    \o programming_language.value))

\* LanguageDetectorApp(root): an empty text area, nothing shown
Init ==
    /\ text = ""
    /\ op = "init"
    /\ human = NoCall /\ prog = NoCall
    /\ events = <<>> /\ notice = NoNotice

Next ==
    \/ EditText
    \/ App_detect_human_language
    \/ App_detect_programming_language
    \/ detect_both

Spec == Init /\ [][Next]_vars

-----------------------------------------------------------------------------
(* One direct call of a classifier on an arbitrary input sample *)

InitFn ==
    /\ text \in Inputs
    /\ op = "init"
    /\ human = NoCall /\ prog = NoCall
    /\ events = <<>> /\ notice = NoNotice

Call_detect_human_language ==
    /\ op = "init"
    /\ \E o \in OracleOutcomes, raises \in BOOLEAN :
           human' = detect_human_language(text, o, raises)
    /\ op' = "detect_human_language"
    /\ UNCHANGED <<text, prog, events, notice>>

Call_detect_programming_language ==
    /\ op = "init"
    /\ prog' = detect_programming_language(text)
    /\ op' = "detect_programming_language"
    /\ UNCHANGED <<text, human, events, notice>>

NextFn ==
    \/ Call_detect_human_language
    \/ Call_detect_programming_language

SpecFn == InitFn /\ [][NextFn]_vars

-----------------------------------------------------------------------------
(* Vocabulary of the properties, stated apart from the operators above *)

IsSpace(s, i) == SubSeq(s, i, i) \in Whitespace

\* s is empty or whitespace only
Blank(s) == \A i \in 1..Len(s) : IsSpace(s, i)

\* s without its leading and trailing whitespace
Trimmed(s) ==
    IF Blank(s) THEN ""
    ELSE LET first == CHOOSE i \in 1..Len(s) :
                          ~IsSpace(s, i) /\ \A j \in 1..(i - 1) : IsSpace(s, j)
             last == CHOOSE i \in 1..Len(s) :
                         ~IsSpace(s, i) /\ \A j \in (i + 1)..Len(s) : IsSpace(s, j)
         IN  SubSeq(s, first, last)

\* at least MinLength characters from the first to the last non-whitespace one
LongEnough(s) ==
    \E i \in 1..Len(s) :
        /\ ~IsSpace(s, i)
        /\ \E j \in (i + MinLength - 1)..Len(s) : ~IsSpace(s, j)

\* k occurs in s as a substring, case-sensitively
Occurs(k, s) ==
    \E j \in 1..Len(s) :
        /\ j + Len(k) - 1 <= Len(s)
        /\ SubSeq(s, j, j + Len(k) - 1) = k

\* rule i of the table has a keyword occurring in s
Matches(i, s) ==
    \E k \in 1..Len(patterns[i].keywords) : Occurs(patterns[i].keywords[k], s)

Matching(s) == {i \in 1..Len(patterns) : Matches(i, s)}

Labels == {patterns[i].language : i \in 1..Len(patterns)}

\* the outcomes of the calls of fn that result r records
Got(r, fn) == {r.events[k].got : k \in {n \in 1..Len(r.events) : r.events[n].fn = fn}}

HumanCalled == human.out # "none"
ProgCalled == prog.out # "none"

-----------------------------------------------------------------------------
(* C1 *)

\* C1: for an input whose trimmed length is at least 5 and in which some
\* rule's keyword occurs, detect_programming_language returns the label of
\* the first such rule in table order.
C1_FirstMatchWins ==
    (ProgCalled /\ LongEnough(text) /\ Matching(text) # {}) =>
        /\ prog.out = "return"
        /\ \E i \in Matching(text) :
              /\ \A j \in Matching(text) : i <= j
              /\ prog.value = patterns[i].language

\* an input matching the rules of Python and of C, classified as Python
C1_Witness ==
    /\ ProgCalled /\ LongEnough(text)
    /\ {1, 4} \subseteq Matching(text)
    /\ prog.value = "Python"

(* C2 *)

\* C2: for an input of trimmed length below 5 each classifier returns its own
\* too-short message, the two messages differ, and neither the oracle nor the
\* name lookup is called nor the rule table evaluated, whatever keywords the
\* input contains.
C2_TooShort ==
    ~LongEnough(text) =>
        /\ HumanCalled => human = Return(TooShortHuman, text, <<>>)
        /\ ProgCalled => prog = Return(TooShortProg, text, <<>>)
        /\ TooShortHuman # TooShortProg

\* a short input made of the keywords ":" and ";"
C2_Witness ==
    /\ ~LongEnough(text)
    /\ Occurs(":", text) /\ Occurs(";", text)
    /\ HumanCalled
    /\ human.value = TooShortHuman

(* C3 *)

\* C3, as stated: an input of trimmed length at least 5 that contains both
\* "#include" and "std::cout" is classified as C.
C3_IncludeCoutIsC ==
    (ProgCalled /\ LongEnough(text) /\ Occurs("#include", text) /\ Occurs("std::cout", text)) =>
        prog.value = "C"

\* C3, amended: such an input is classified as Python, the first rule of the
\* table, because "std::cout" contains the Python keyword ":".
C3_IncludeCoutIsPython ==
    (ProgCalled /\ LongEnough(text) /\ Occurs("#include", text) /\ Occurs("std::cout", text)) =>
        prog.value = "Python"

C3_Witness ==
    /\ ProgCalled /\ LongEnough(text)
    /\ Occurs("#include", text) /\ Occurs("std::cout", text)
    /\ prog.value = "Python"

(* C4 *)

\* C4: whatever the input, the oracle's outcome and the lookup's outcome, a
\* classifier call ends by returning a string; no exception leaves it.
C4_AlwaysAMessage ==
    /\ HumanCalled => (human.out = "return" /\ human.value \in STRING)
    /\ ProgCalled => (prog.out = "return" /\ prog.value \in STRING)

\* the oracle raised an exception other than LangDetectException
C4_Witness ==
    /\ HumanCalled
    /\ \E o \in Got(human, "detect_langs") : o.kind = "Exception"
    /\ human.out = "return"

(* C6 *)

\* C6: for an input of trimmed length at least 5 the oracle is called once;
\* when it returns an empty list and when it raises LangDetectException the
\* result is the same "ambiguous or insufficient" message, which differs from
\* the too-short message and from the message for any other exception, which
\* is the generic text followed by the exception's description.
C6_AmbiguousMessage ==
    (HumanCalled /\ LongEnough(text)) =>
        /\ Cardinality(Got(human, "detect_langs")) = 1
        /\ \A o \in Got(human, "detect_langs") :
              /\ (o.kind = "list" /\ o.langs = <<>>) => human.value = Ambiguous
              /\ o.kind = "LangDetectException" => human.value = Ambiguous
              /\ o.kind = "Exception" =>
                    /\ human.value = UnexpectedHuman \o o.desc
                    /\ human.value # Ambiguous
        /\ Ambiguous # TooShortHuman

C6_Witness ==
    /\ HumanCalled /\ LongEnough(text)
    /\ \E o \in Got(human, "detect_langs") : o.kind = "LangDetectException"
    /\ human.value = Ambiguous

(* C5 *)

Handlers ==
    {"App.detect_human_language", "App.detect_programming_language", "App.detect_both"}

\* C5: after any of the three handlers, in any sequence of them and of edits:
\* if the text area holds nothing but whitespace, an error notice was shown
\* and no classifier was called; otherwise exactly the classifiers of that
\* handler were called, on the trimmed text, the human-language one first,
\* and then one info notice showing the returned strings.
C5_ShellRouting ==
    op \in Handlers =>
        LET trimmed == Trimmed(text)
            wantsHuman == op \in {"App.detect_human_language", "App.detect_both"}
            wantsProg == op \in {"App.detect_programming_language", "App.detect_both"}
            calls ==
                (IF wantsHuman
                 THEN <<Event("detect_human_language", trimmed, NoOutcome)>> ELSE <<>>)
                \o (IF wantsProg
                    THEN <<Event("detect_programming_language", trimmed, NoOutcome)>>
                    ELSE <<>>)
            message ==
                IF op = "App.detect_human_language" THEN human.value
                ELSE IF op = "App.detect_programming_language"
                THEN "Detected Language: " \o prog.value
                ELSE "Detected Human Language: " \o human.value
                       \o "\nDetected Programming Language: " \o prog.value
        IN  IF Blank(text)
            THEN /\ notice.kind = "showerror"
                 /\ ~HumanCalled /\ ~ProgCalled
                 /\ events = <<Event("showerror", notice.message, NoOutcome)>>
            ELSE /\ HumanCalled <=> wantsHuman
                 /\ ProgCalled <=> wantsProg
                 /\ HumanCalled => (human.arg = trimmed /\ human.out = "return")
                 /\ ProgCalled => (prog.arg = trimmed /\ prog.out = "return")
                 /\ notice.kind = "showinfo"
                 /\ notice.message = message
                 /\ events = calls \o <<Event("showinfo", message, NoOutcome)>>

\* "detect both" pressed on a text with whitespace around it
C5_Witness ==
    /\ op = "App.detect_both"
    /\ text = "  hello world  "
    /\ human.arg = "hello world" /\ prog.arg = "hello world"
    /\ notice.kind = "showinfo"

(* C7 *)

\* the display name of a code: its entry of the lookup table, or the placeholder
NameOf(code) ==
    IF code \in DOMAIN LanguageNames THEN LanguageNames[code] ELSE "Unknown Language"

Report(c) == SuccessMessage(NameOf(c.lang), c.prob)

Descending(l) == \A k \in 1..(Len(l) - 1) : l[k].prob >= l[k + 1].prob

Highest(l) == {k \in 1..Len(l) : \A j \in 1..Len(l) : l[k].prob >= l[j].prob}

C8_UnknownLanguage ==
    (HumanCalled /\ LongEnough(text)) =>
        \A o \in Got(human, "detect_langs") :
            (o.kind = "list" /\ o.langs # <<>> /\ o.langs[1].lang \notin DOMAIN LanguageNames) =>
                /\ \E g \in Got(human, "pycountry.languages.get") : g.kind \in {"None", "raise"}
                /\ human.out = "return"
                /\ human.value =
                      "Detected Language: Unknown Language with "
                        \o Format2f(o.langs[1].prob) \o "% chances."

\* the lookup raised
C8_Witness ==
    /\ HumanCalled /\ LongEnough(text)
    /\ \E g \in Got(human, "pycountry.languages.get") : g.kind = "raise"
    /\ \E o \in Got(human, "detect_langs") :
          human.value = SuccessMessage("Unknown Language", o.langs[1].prob)

(* C9 *)

\* C9: detect_programming_language returns the "no patterns matched" message
\* exactly when the trimmed input has at least 5 characters and no keyword of
\* any rule occurs in the input; that message is neither the too-short
\* message nor a language label.
C9_NoPattern ==
    /\ ProgCalled => (prog.value = NoPattern <=> (LongEnough(text) /\ Matching(text) = {}))
    /\ NoPattern # TooShortProg
    /\ NoPattern \notin Labels

\* "Def " is not "def ": matching is case-sensitive
C9_Witness ==
    /\ ProgCalled
    /\ text = "Def abc"
    /\ prog.value = NoPattern

(* C10 *)

\* each label but C++ is the classification of some input sample
OtherLabelsReturned ==
    \A l \in Labels \ {"C++"} :
        \E s \in Concats(2) : detect_programming_language(s).value = l

\* C10: detect_programming_language never returns "C++", also for inputs that
\* contain C++ keywords, while every other label is returned for some input.
C10_NeverCpp ==
    /\ ProgCalled => prog.value # "C++"
    /\ OtherLabelsReturned

\* an input with a keyword that only the C++ rule lists, classified as C
C10_Witness ==
    /\ ProgCalled /\ LongEnough(text)
    /\ Occurs("using namespace std;", text)
    /\ Matching(text) = {4, 5}
    /\ prog.value = "C"

====
